---- MODULE Spec2Model ----
(***************************************************************************)
(* A model of favicon.py: the favicon locator (get_favicon_url), the       *)
(* filename deriver (get_filename), the fetcher (get_favicon) and the two  *)
(* batch drivers (get_favicons, get_dokuwiki_interwiki_icons).             *)
(*                                                                         *)
(* Python strings are TLA+ strings; TLC evaluates Len, \o and SubSeq on    *)
(* them, so every string operation of the source is computed character by  *)
(* character.  All strings of the model are lower-case ASCII without ';'.  *)
(***************************************************************************)
EXTENDS Integers, Sequences, FiniteSets, TLC

\* ------------------------------------------------------------------ bounds
\* longest URL list given on the command line
MaxUrls == 2
\* most lines in conf/interwiki.local.conf
MaxLines == 2
\* longest generated favicon reference (over RefAlphabet)
MaxRefLen == 3
\* most host labels of a generated page host
MaxLabels == 3

\* ------------------------------------------------------- string primitives
Char(s, i) == SubSeq(s, i, i)

StartsWith(s, p) == Len(s) >= Len(p) /\ SubSeq(s, 1, Len(p)) = p

EndsWith(s, p) == Len(s) >= Len(p) /\ SubSeq(s, Len(s) - Len(p) + 1, Len(s)) = p

From(s, i) == SubSeq(s, i, Len(s))

SetMin(S) == CHOOSE x \in S : \A y \in S : x <= y

SetMax(S) == CHOOSE x \in S : \A y \in S : x >= y

\* str.find on a set of characters, from position k: the least index, 0 if none
FindFrom(s, cs, k) ==
    LET I == {i \in k..Len(s) : Char(s, i) \in cs}
    IN  IF I = {} THEN 0 ELSE SetMin(I)

Find(s, c) == FindFrom(s, {c}, 1)

\* str.rfind: the greatest index, 0 if none
RFind(s, c) ==
    LET I == {i \in 1..Len(s) : Char(s, i) = c}
    IN  IF I = {} THEN 0 ELSE SetMax(I)

\* str.split(sep) for a one-character separator
RECURSIVE Split(_, _)
Split(s, sep) ==
    LET i == Find(s, sep)
    IN  IF i = 0 THEN <<s>>
        ELSE <<SubSeq(s, 1, i - 1)>> \o Split(From(s, i + 1), sep)

\* sep.join(parts)
RECURSIVE Join(_, _)
Join(parts, sep) ==
    IF parts = <<>> THEN ""
    ELSE IF Len(parts) = 1 THEN parts[1]
    ELSE parts[1] \o sep \o Join(Tail(parts), sep)

\* str.rstrip('/')
RECURSIVE RStripSlash(_)
RStripSlash(s) ==
    IF s # "" /\ Char(s, Len(s)) = "/" THEN RStripSlash(SubSeq(s, 1, Len(s) - 1))
    ELSE s

AllSlashes(s) == \A k \in 1..Len(s) : Char(s, k) = "/"

\* ------------------------------------------------------- library functions
Letters == {"a", "b", "c", "d", "e", "f", "g", "h", "i", "j", "k", "l", "m",
            "n", "o", "p", "q", "r", "s", "t", "u", "v", "w", "x", "y", "z"}

Digits == {"0", "1", "2", "3", "4", "5", "6", "7", "8", "9"}

\* urllib.parse.scheme_chars (lower-case part)
SchemeChars == Letters \cup Digits \cup {"+", "-", "."}

\* urllib.parse.urlparse(u): scheme, netloc and path of u
urlparse(u) ==
    LET i         == Find(u, ":")
        hasScheme == /\ i > 1
                     /\ Char(u, 1) \in Letters
                     /\ \A k \in 1..(i - 1) : Char(u, k) \in SchemeChars
        rest      == IF hasScheme THEN From(u, i + 1) ELSE u
        hasNet    == StartsWith(rest, "//")
        j         == FindFrom(rest, {"/", "?", "#"}, 3)
        afterNet  == IF ~hasNet THEN rest
                     ELSE IF j = 0 THEN "" ELSE From(rest, j)
        f         == Find(afterNet, "#")
        noFrag    == IF f = 0 THEN afterNet ELSE SubSeq(afterNet, 1, f - 1)
        q         == Find(noFrag, "?")
    IN  [scheme |-> IF hasScheme THEN SubSeq(u, 1, i - 1) ELSE "",
         netloc |-> IF ~hasNet THEN ""
                    ELSE IF j = 0 THEN From(rest, 3) ELSE SubSeq(rest, 3, j - 1),
         path   |-> IF q = 0 THEN noFrag ELSE SubSeq(noFrag, 1, q - 1)]

\* os.path.splitext(p)[1]: from the last dot of the last component, leading
\* dots of the component not counted
splitext(p) ==
    LET sep == RFind(p, "/")
        dot == RFind(p, ".")
    IN  IF dot > sep /\ \E k \in (sep + 1)..(dot - 1) : Char(p, k) # "."
        THEN From(p, dot)
        ELSE ""

\* os.path.split(p)[0]
splithead(p) ==
    LET i    == RFind(p, "/")
        head == SubSeq(p, 1, i)
    IN  IF head # "" /\ ~AllSlashes(head) THEN RStripSlash(head) ELSE head

\* os.path.join(a, b)
pathjoin(a, b) ==
    IF StartsWith(b, "/") THEN b
    ELSE IF a = "" \/ EndsWith(a, "/") THEN a \o b
    ELSE a \o "/" \o b

\* ---------------------------------------------------- program constants
EXCLUDED_DOMAINS == {"www", "com", "org", "net", "ru"}

\* requests.codes.ok
OK == 200

\* the extensions of the default locations with favicon.ico probed first
ExtsIcoFirst == <<"ico", "png">>

\* the extensions of the default locations, in the order they are probed
Exts == <<"png", "ico">>

\* ------------------------------------------------------------ pure code
\* requests refuses a URL without an http(s) scheme or without a host
\* (MissingSchema, InvalidSchema, InvalidURL) before anything is sent
ValidRequestUrl(u) ==
    /\ urlparse(u).scheme \in {"http", "https"}
    /\ urlparse(u).netloc # ""

\* '{url.scheme}://{url.netloc}/favicon.' of the page URL
basename(pageUrl) ==
    urlparse(pageUrl).scheme \o "://" \o urlparse(pageUrl).netloc \o "/favicon."

\* the found reference r made absolute against the page URL, with the two
\* slash tests in the wrong order
ResolveSlashFirst(r, pageUrl) ==
    LET parsed_url == urlparse(pageUrl)
    IN  IF r = "" THEN r
        ELSE IF StartsWith(r, "/")
        THEN parsed_url.scheme \o "://" \o parsed_url.netloc \o r
        ELSE IF StartsWith(r, "//")
        THEN parsed_url.scheme \o ":" \o r
        ELSE IF ~StartsWith(r, "http")
        THEN parsed_url.scheme \o "://" \o parsed_url.netloc \o "/"
                 \o splithead(parsed_url.path) \o "/" \o r
        ELSE r

\* the found reference r made absolute against the page URL
ResolveReference(r, pageUrl) ==
    LET parsed_url == urlparse(pageUrl)
    IN  IF r = "" THEN r
        ELSE IF StartsWith(r, "//")
        THEN parsed_url.scheme \o ":" \o r
        ELSE IF StartsWith(r, "/")
        THEN parsed_url.scheme \o "://" \o parsed_url.netloc \o r
        ELSE IF ~StartsWith(r, "http")
        THEN parsed_url.scheme \o "://" \o parsed_url.netloc \o "/"
                 \o splithead(parsed_url.path) \o "/" \o r
        ELSE r

\* get_filename with the extension of the favicon kept although png is set
GetFilenameKeepExt(pageUrl, faviconUrl, usePng) ==
    Join(SelectSeq(Split(urlparse(pageUrl).netloc, "."),
                   LAMBDA d : d \notin EXCLUDED_DOMAINS), "-")
        \o splitext(urlparse(faviconUrl).path)

get_filename(pageUrl, faviconUrl, usePng) ==
    LET ext == IF usePng THEN ".png" ELSE splitext(urlparse(faviconUrl).path)
    IN  Join(SelectSeq(Split(urlparse(pageUrl).netloc, "."),
                       LAMBDA d : d \notin EXCLUDED_DOMAINS), "-") \o ext

\* gives a URL without 'http' in front the https scheme
WithHttps(u) == IF ~StartsWith(u, "http") THEN "https://" \o u ELSE u

\* the number of leading characters of s that are in cs
PrefixLen(s, cs) ==
    LET I == {i \in 1..Len(s) : Char(s, i) \notin cs}
    IN  IF I = {} THEN Len(s) ELSE SetMin(I) - 1

\* the white space of str.strip and of \s that the lines of the model hold
Whitespace == {" "}

\* str.strip()
RECURSIVE strip(_)
strip(s) ==
    IF s # "" /\ Char(s, 1) \in Whitespace THEN strip(From(s, 2))
    ELSE IF s # "" /\ Char(s, Len(s)) \in Whitespace
    THEN strip(SubSeq(s, 1, Len(s) - 1))
    ELSE s

\* the class [-0-9.a-z_] of an interwiki name
NameChars == Letters \cup Digits \cup {"-", ".", "_"}

\* re.fullmatch(r'([-0-9.a-z_]+)\s+(.*)', line.strip()): both + are greedy, so
\* a match takes the longest run of name characters, which white space must
\* follow
InterwikiMatch(line) ==
    LET s    == strip(line)
        n    == PrefixLen(s, NameChars)
        rest == From(s, n + 1)
        w    == PrefixLen(rest, Whitespace)
    IN  [ok     |-> n >= 1 /\ w >= 1,
         name   |-> SubSeq(s, 1, n),
         target |-> From(rest, w + 1)]

\* os.path.abspath(dokuwiki_home)
DokuwikiHome == "/w"

images_dir == pathjoin(pathjoin(pathjoin(DokuwikiHome, "lib"), "images"), "interwiki")

\* the icon file of an interwiki name
IconFile(name) == pathjoin(images_dir, name \o ".png")

\* '{url.scheme}://{url.netloc}/' of an entry's target
SiteRoot(target) ==
    urlparse(target).scheme \o "://" \o urlparse(target).netloc \o "/"

\* the extensions Image.save knows a format for (those the model meets)
KnownExts == {".png", ".ico", ".gif"}

\* -------------------------------------------------------------- inputs
\* page URLs as typed on the command line
PageInputs == {"a.com", "httpbin.org", "http://www.b.ru/d/p"}

UrlLists == UNION {[1..n -> PageInputs] : n \in 0..MaxUrls}

\* lines of conf/interwiki.local.conf
ConfLines == {"# c", "wp  http://a.org/w/{name}", " b_1 https://b.ru/x ", "g nourl"}

ConfFiles == UNION {[1..n -> ConfLines] : n \in 0..MaxLines}

\* favicon references met by a whole run: the href of a link
SampleRefs == {"", "/i.ico", "//c.net/i.png", "http://c.net/i", "i.gif", "httpd.png"}

\* favicon references met by a whole run: the Location of a redirect
SampleLocations == {"", "/s/i.ico", "http://c.net/i.png"}

\* favicon references met by a call of the locator alone: every string over
\* RefAlphabet up to MaxRefLen, and some longer ones
RefAlphabet == {"/", "h", ":", "a"}

RefSet ==
    {Join(t, "") : t \in UNION {[1..n -> RefAlphabet] : n \in 0..MaxRefLen}}
        \cup SampleRefs
        \cup {"http", "httpa/i.ico", "https://c.net/i.ico", "///i.ico", "i/j.png"}

\* responses to the GET of the page: an exception of requests or of the
\* parser, or a status with what the markup holds (no link rel=icon, one
\* without href, one with href)
PageResponses(R) ==
    {[exc |-> e, status |-> 0, link |-> "none", href |-> ""] :
        e \in {"ConnectionError", "RequestException", "Exception"}}
    \cup {[exc |-> "none", status |-> st, link |-> l, href |-> ""] :
            st \in {OK, 404}, l \in {"none", "nohref"}}
    \cup {[exc |-> "none", status |-> st, link |-> "href", href |-> r] :
            st \in {OK, 404}, r \in R}

\* responses to the HEAD of a default location (HEAD follows no redirect;
\* is_redirect is a 3xx status with a Location header)
HeadResponses(R) ==
    {[exc |-> "ConnectionError", redirect |-> FALSE, location |-> "", status |-> 0]}
    \cup {[exc |-> "none", redirect |-> TRUE, location |-> r, status |-> 302] : r \in R}
    \cup {[exc |-> "none", redirect |-> FALSE, location |-> "", status |-> st] :
            st \in {OK, 304, 404}}

\* statuses of the GET of the favicon that requests does not follow further
FetchStatuses == {OK, 204, 304, 404}

\* what the body of the favicon response decodes to
Images ==
    {[format |-> "none", sizes |-> {}],
     [format |-> "ICO", sizes |-> {16, 32}],
     [format |-> "PNG", sizes |-> {}]}

\* --------------------------------------------------------------- state
VARIABLES
    mode,         \* the function entered: "urls", "dokuwiki", "locate", "filename"
    argsDefined,  \* the module-level name args exists (the file runs as a script)
    given,        \* the parts the inputs of a direct call were assembled from
    urls, output_dir, png, resize, get,   \* the parameters of get_favicons
    conf, force,  \* the lines of interwiki.local.conf, the force parameter
    files,        \* the icon files that exist
    pc,           \* the statement the program is at
    idx,          \* the items of the list or file taken so far
    attempts,     \* the items taken, in the order they were taken
    url,          \* the page URL of the item
    filename,     \* the destination of the item
    favicon_url,  \* the local of get_favicon_url, then of its caller
    found,        \* favicon_url as it was before resolution
    src,          \* where the reference came from: "none", "link", "location", "final"
    ext_i,        \* the default locations probed so far
    size,         \* the resize parameter of get_favicon
    status,       \* the status of the favicon response, 0 before it
    exc,          \* the exception last raised in the item, "none" if none
    reqs,         \* the requests sent for the item and how each ended, in order
    out,          \* the line printed for the item
    ev            \* what happened in the item

params == <<mode, argsDefined, given, urls, png, resize, get, conf, force>>

item == <<url, filename, favicon_url, found, src, ext_i, size, status, exc, reqs, out, ev>>

vars == <<params, output_dir, files, pc, idx, attempts, item>>

\* the locals of an item before it starts
FreshItem ==
    /\ filename = "" /\ favicon_url = "" /\ found = ""
    /\ src = "none" /\ ext_i = 0 /\ size = 0 /\ status = 0
    /\ exc = "none" /\ reqs = <<>> /\ out = "" /\ ev = {}

NoCall ==
    /\ urls = <<>> /\ output_dir = "" /\ png = FALSE /\ resize = 0 /\ get = FALSE
    /\ conf = <<>> /\ force = FALSE /\ files = {}
    /\ idx = 0 /\ attempts = <<>>

\* the script is run in one of its two modes, or a module that imported it
\* calls get_dokuwiki_interwiki_icons (get_favicons reads no module-level
\* name, so it is entered from the script alone)
Init ==
    /\ mode \in {"urls", "dokuwiki"}
    /\ argsDefined \in (IF mode = "dokuwiki" THEN BOOLEAN ELSE {TRUE})
    /\ given = <<>>
    /\ pc = IF argsDefined THEN "main" ELSE "dw_line"
    /\ IF mode = "urls"
       THEN /\ urls \in UrlLists
            /\ get \in BOOLEAN
            \* the options of saving are read only when get is set
            /\ output_dir \in (IF get THEN {"", "out"} ELSE {""})
            /\ png \in (IF get THEN BOOLEAN ELSE {FALSE})
            /\ resize \in (IF get THEN {0, 16} ELSE {0})
            /\ conf = <<>> /\ force = FALSE /\ files = {}
       ELSE /\ conf \in ConfFiles
            /\ force \in BOOLEAN
            /\ files \in SUBSET {IconFile("wp")}
            /\ urls = <<>> /\ output_dir = "" /\ png = FALSE /\ resize = 0
            /\ get = FALSE
    /\ idx = 0 /\ attempts = <<>>
    /\ url = ""
    /\ FreshItem

\* --------------------------------------------------------------- actions
\* how a request ended, as the log of requests records it
Answer(e, is_redirect, st) ==
    IF e # "none" THEN "error"
    ELSE IF is_redirect THEN "redirect"
    ELSE IF st = OK THEN "ok"
    ELSE "other"

\* a raise statement or a raising call: control goes to the handler of the
\* driver, or out of a function called alone
Raise(e) ==
    /\ exc' = e
    /\ pc' = "except"

StartItem ==
    /\ favicon_url' = "" /\ found' = "" /\ src' = "none"
    /\ ext_i' = 0 /\ size' = 0 /\ status' = 0 /\ exc' = "none"
    /\ reqs' = <<>> /\ out' = ""

\* the script's dispatch on args.dokuwiki
Main ==
    /\ pc = "main"
    /\ pc' = IF mode = "dokuwiki" THEN "dw_line" ELSE "loop"
    /\ UNCHANGED <<params, output_dir, files, idx, attempts, item>>

\* get_favicons: the next URL of the list, made a URL, given to the locator
LoopUrls ==
    /\ pc = "loop" /\ mode = "urls"
    /\ idx < Len(urls)
    /\ idx' = idx + 1
    /\ attempts' = Append(attempts, idx + 1)
    /\ url' = WithHttps(urls[idx + 1])
    /\ filename' = ""
    /\ StartItem
    /\ ev' = {"locate"}
    /\ pc' = "page_get"
    /\ UNCHANGED <<params, output_dir, files>>

\* get_favicons: the list is exhausted, the function returns
ReturnUrls ==
    /\ pc = "loop" /\ mode = "urls"
    /\ idx = Len(urls)
    /\ pc' = "exit"
    /\ UNCHANGED <<params, output_dir, files, idx, attempts, item>>

\* get_favicon_url: the GET of the page and the search for link rel=icon
PageGet(R) ==
    /\ pc = "page_get"
    /\ IF ~ValidRequestUrl(url)
       THEN /\ Raise("RequestException")
            /\ UNCHANGED <<favicon_url, src, reqs>>
       ELSE \E resp \in PageResponses(R) :
                /\ reqs' = Append(reqs, <<"GET", url, Answer(resp.exc, FALSE, resp.status)>>)
                /\ IF resp.exc # "none"
                   THEN /\ Raise(resp.exc)
                        /\ UNCHANGED <<favicon_url, src>>
                   ELSE /\ favicon_url' =
                               IF resp.status = OK /\ resp.link = "href"
                               THEN resp.href ELSE ""
                        /\ src' = IF favicon_url' # "" THEN "link" ELSE "none"
                        /\ pc' = IF favicon_url' = "" THEN "head" ELSE "resolve"
                        /\ UNCHANGED exc
    /\ UNCHANGED <<params, output_dir, files, idx, attempts, url, filename,
                   found, ext_i, size, status, out, ev>>

\* get_favicon_url: one turn of the loop over the default locations
HeadProbe(R) ==
    /\ pc = "head"
    /\ ext_i < Len(Exts)
    /\ ext_i' = ext_i + 1
    /\ \E resp \in HeadResponses(R) :
        /\ reqs' = Append(reqs, <<"HEAD", basename(url) \o Exts[ext_i + 1],
                                  Answer(resp.exc, resp.redirect, resp.status)>>)
        /\ IF resp.exc # "none"
           THEN /\ Raise(resp.exc)
                /\ UNCHANGED <<favicon_url, src>>
           ELSE IF resp.redirect
           THEN /\ favicon_url' = resp.location
                /\ src' = "location"
                /\ pc' = "resolve"
                /\ UNCHANGED exc
           ELSE IF resp.status = OK
           THEN /\ favicon_url' = basename(url) \o Exts[ext_i + 1]
                /\ src' = "final"
                /\ pc' = "resolve"
                /\ UNCHANGED exc
           ELSE /\ pc' = IF ext_i + 1 < Len(Exts) THEN "head" ELSE "resolve"
                /\ UNCHANGED <<favicon_url, src, exc>>
    /\ UNCHANGED <<params, output_dir, files, idx, attempts, url, filename,
                   found, size, status, out, ev>>

\* get_favicon_url: the reference made absolute and returned
Resolve ==
    /\ pc = "resolve"
    /\ found' = favicon_url
    /\ favicon_url' = ResolveReference(favicon_url, url)
    /\ pc' = CASE mode = "urls" -> "located"
               [] mode = "dokuwiki" -> "dw_located"
               [] OTHER -> "returned"
    /\ UNCHANGED <<params, output_dir, files, idx, attempts, url, filename,
                   src, ext_i, size, status, exc, reqs, out, ev>>

\* get_favicons with the favicon printed and fetched as well
DispatchBoth ==
    /\ pc = "located"
    /\ IF favicon_url = ""
       THEN /\ Raise("Exception")
            /\ UNCHANGED <<output_dir, filename, size, out, ev>>
       ELSE /\ output_dir' = IF output_dir = "" THEN "." ELSE output_dir
            /\ filename' = pathjoin(output_dir', get_filename(url, favicon_url, png))
            /\ size' = resize
            /\ out' = favicon_url
            /\ ev' = ev \cup {"fetch", "print"}
            /\ pc' = "fetch_get"
            /\ UNCHANGED exc
    /\ UNCHANGED <<params, files, idx, attempts, url, favicon_url, found, src,
                   ext_i, status, reqs>>

\* get_favicons: no favicon is an error; else the favicon is fetched, or printed
Dispatch ==
    /\ pc = "located"
    /\ IF favicon_url = ""
       THEN /\ Raise("Exception")
            /\ UNCHANGED <<output_dir, filename, size, out, ev>>
       ELSE IF get
       THEN /\ output_dir' = IF output_dir = "" THEN "." ELSE output_dir
            /\ filename' = pathjoin(output_dir', get_filename(url, favicon_url, png))
            /\ size' = resize
            /\ ev' = ev \cup {"fetch"}
            /\ pc' = "fetch_get"
            /\ UNCHANGED <<exc, out>>
       ELSE /\ out' = favicon_url
            /\ ev' = ev \cup {"print"}
            /\ pc' = "loop"
            /\ UNCHANGED <<output_dir, filename, size, exc>>
    /\ UNCHANGED <<params, files, idx, attempts, url, favicon_url, found, src,
                   ext_i, status, reqs>>

\* get_favicon: the GET of the favicon and the test of its status
FetchGet ==
    /\ pc = "fetch_get"
    /\ IF ~ValidRequestUrl(favicon_url)
       THEN /\ Raise("RequestException")
            /\ UNCHANGED <<status, reqs>>
       ELSE \/ /\ \E e \in {"ConnectionError", "RequestException"} : Raise(e)
               /\ reqs' = Append(reqs, <<"GET", favicon_url, "error">>)
               /\ UNCHANGED status
            \/ \E st \in FetchStatuses :
                    /\ reqs' = Append(reqs, <<"GET", favicon_url, Answer("none", FALSE, st)>>)
                    /\ status' = st
                    \* raise_for_status raises for 4xx and 5xx alone
                    /\ IF st # OK /\ 400 <= st /\ st < 600
                       THEN Raise("HTTPError")
                       ELSE pc' = "decode" /\ UNCHANGED exc
    /\ UNCHANGED <<params, output_dir, files, idx, attempts, url, filename,
                   favicon_url, found, src, ext_i, size, out, ev>>

\* get_favicon: Image.open, then the frame of an ICO or a resampling
Decode ==
    /\ pc = "decode"
    /\ \E img \in Images :
        IF img.format = "none"
        THEN /\ Raise("Exception")
             /\ ev' = ev \cup {"open"}
        ELSE /\ ev' = ev \cup {"open", "image"} \cup
                    (IF size > 0
                     THEN IF img.format = "ICO" /\ size \in img.sizes
                          THEN {"getimage"} ELSE {"resample"}
                     ELSE {})
             /\ pc' = "save"
             /\ UNCHANGED exc
    /\ UNCHANGED <<params, output_dir, files, idx, attempts, url, filename,
                   favicon_url, found, src, ext_i, size, status, reqs, out>>

\* get_favicon: favicon.save(filename), which needs a known extension and a
\* place it can write to
Save ==
    /\ pc = "save"
    /\ \/ /\ splitext(filename) \notin KnownExts
          /\ Raise("Exception")
          /\ UNCHANGED <<files, ev>>
       \/ /\ splitext(filename) \in KnownExts
          /\ Raise("Exception")
          /\ UNCHANGED <<files, ev>>
       \/ /\ splitext(filename) \in KnownExts
          /\ files' = files \cup {filename}
          /\ ev' = ev \cup {"write"}
          /\ pc' = IF mode = "dokuwiki" THEN "dw_saved" ELSE "loop"
          /\ UNCHANGED exc
    /\ UNCHANGED <<params, output_dir, idx, attempts, url, filename,
                   favicon_url, found, src, ext_i, size, status, reqs, out>>

\* get_favicons with a handler that lets the exception go
HandleUrlsAbort ==
    /\ pc = "except" /\ mode = "urls"
    /\ pc' = "crashed"
    /\ UNCHANGED <<params, output_dir, files, idx, attempts, item>>

\* get_favicons: the three handlers, each logs an error; the loop goes on
HandleUrls ==
    /\ pc = "except" /\ mode = "urls"
    /\ ev' = ev \cup {"error"}
    /\ pc' = "loop"
    /\ UNCHANGED <<params, output_dir, files, idx, attempts, url, filename,
                   favicon_url, found, src, ext_i, size, status, exc, reqs, out>>

\* the test that leaves an icon alone, without its force part
SkipExistingForced(name, fs, f) == IconFile(name) \in fs

\* os.path.isfile(filename) and not force
SkipExisting(name, fs, f) == IconFile(name) \in fs /\ ~f

\* get_dokuwiki_interwiki_icons: the next line of the file; a line that is no
\* entry is passed over, an entry whose icon exists is skipped, any other
\* entry is given to the locator
DwLine ==
    /\ pc = "dw_line" /\ mode = "dokuwiki"
    /\ idx < Len(conf)
    /\ idx' = idx + 1
    /\ attempts' = Append(attempts, idx + 1)
    /\ StartItem
    /\ LET m == InterwikiMatch(conf[idx + 1])
       IN  IF ~m.ok
           THEN /\ url' = "" /\ filename' = "" /\ ev' = {}
                /\ pc' = "dw_line"
           ELSE IF SkipExisting(m.name, files, force)
           THEN /\ url' = "" /\ filename' = IconFile(m.name) /\ ev' = {"skip"}
                /\ pc' = "dw_line"
           ELSE /\ url' = SiteRoot(m.target)
                /\ filename' = IconFile(m.name)
                /\ ev' = {"locate"}
                /\ pc' = "page_get"
    /\ UNCHANGED <<params, output_dir, files>>

\* get_dokuwiki_interwiki_icons: the file is exhausted, the function returns
ReturnDw ==
    /\ pc = "dw_line" /\ mode = "dokuwiki"
    /\ idx = Len(conf)
    /\ pc' = "exit"
    /\ UNCHANGED <<params, output_dir, files, idx, attempts, item>>

\* get_dokuwiki_interwiki_icons: no favicon is logged as an error; else the
\* favicon is fetched as a 16x16 icon
DwLocated ==
    /\ pc = "dw_located"
    /\ IF favicon_url = ""
       THEN /\ ev' = ev \cup {"error"}
            /\ pc' = "dw_line"
            /\ UNCHANGED size
       ELSE /\ size' = 16
            /\ ev' = ev \cup {"fetch"}
            /\ pc' = "fetch_get"
    /\ UNCHANGED <<params, output_dir, files, idx, attempts, url, filename,
                   favicon_url, found, src, ext_i, status, exc, reqs, out>>

\* get_dokuwiki_interwiki_icons: the entry's last statement, an info message
DwSaved ==
    /\ pc = "dw_saved"
    /\ ev' = ev \cup {"saved"}
    /\ pc' = "dw_line"
    /\ UNCHANGED <<params, output_dir, files, idx, attempts, url, filename,
                   favicon_url, found, src, ext_i, size, status, exc, reqs, out>>

\* get_dokuwiki_interwiki_icons: the three handlers. The one of
\* ConnectionError reads args.url: args is a name of the script's main block,
\* and where it does not exist the handler raises NameError itself
HandleDw ==
    /\ pc = "except" /\ mode = "dokuwiki"
    /\ IF exc = "ConnectionError" /\ ~argsDefined
       THEN /\ exc' = "NameError"
            /\ pc' = "crashed"
            /\ UNCHANGED ev
       ELSE /\ ev' = ev \cup {"error"}
            /\ pc' = "dw_line"
            /\ UNCHANGED exc
    /\ UNCHANGED <<params, output_dir, files, idx, attempts, url, filename,
                   favicon_url, found, src, ext_i, size, status, reqs, out>>

Next ==
    \/ Main
    \/ LoopUrls
    \/ ReturnUrls
    \/ PageGet(SampleRefs)
    \/ HeadProbe(SampleLocations)
    \/ Resolve
    \/ Dispatch
    \/ FetchGet
    \/ Decode
    \/ Save
    \/ HandleUrls
    \/ DwLine
    \/ ReturnDw
    \/ DwLocated
    \/ DwSaved
    \/ HandleDw

\* the program: the script, or one of its drivers called from another module
Spec == Init /\ [][Next]_vars

\* ------------------------------------------------ the locator called alone
PageSchemes == {"http", "https"}

PageHosts == {"a.com", "www.b.ru:8"}

PagePaths == {"", "/", "/d/p", "/d/e/", "/p?q=/x"}

InitLocate ==
    /\ mode = "locate"
    /\ argsDefined = FALSE
    /\ given \in [scheme : PageSchemes, host : PageHosts, path : PagePaths]
    /\ NoCall
    /\ FreshItem
    /\ url = given.scheme \o "://" \o given.host \o given.path
    /\ pc = "page_get"

NextLocate ==
    \/ PageGet(RefSet)
    \/ HeadProbe(RefSet)
    \/ Resolve

\* get_favicon_url(url) for a page URL that requests accepts
SpecLocate == InitLocate /\ [][NextLocate]_vars

\* ------------------------------------------- get_filename called alone
HostLabels == {"www", "com", "org", "net", "ru", "a", "ww", "b:8"}

FaviconDirs == {"/", "/v1.2/"}

FaviconExts == {"", ".ico"}

FaviconQueries == {"", "?v=1.2"}

InitFilename ==
    /\ mode = "filename"
    /\ argsDefined = FALSE
    /\ given \in [labels : UNION {[1..n -> HostLabels] : n \in 1..MaxLabels},
                  dir : FaviconDirs, ext : FaviconExts, query : FaviconQueries]
    /\ urls = <<>> /\ output_dir = "" /\ resize = 0 /\ get = FALSE
    /\ conf = <<>> /\ force = FALSE /\ files = {}
    /\ idx = 0 /\ attempts = <<>>
    /\ png \in BOOLEAN
    /\ url = "https://" \o Join(given.labels, ".") \o "/p"
    /\ favicon_url = "http://c.net" \o given.dir \o "favicon" \o given.ext
                        \o given.query
    /\ filename = "" /\ found = ""
    /\ src = "none" /\ ext_i = 0 /\ size = 0 /\ status = 0
    /\ exc = "none" /\ reqs = <<>> /\ out = "" /\ ev = {}
    /\ pc = "derive"

\* filename = get_filename(url, favicon_url, png)
Derive ==
    /\ pc = "derive"
    /\ filename' = get_filename(url, favicon_url, png)
    /\ pc' = "returned"
    /\ UNCHANGED <<params, output_dir, files, idx, attempts, url,
                   favicon_url, found, src, ext_i, size, status, exc, reqs, out, ev>>

SpecFilename == InitFilename /\ [][Derive]_vars

\* ============================================================== claims
IsHead(r) == r[1] = "HEAD"

IsGet(r) == r[1] = "GET"

\* an item of the URL list is over: control is back at the head of the loop
UrlItemDone == mode = "urls" /\ pc = "loop" /\ idx > 0

\* C1: in URL-list mode every URL of the list is taken exactly once, in list
\* order; a failure in an item is caught in that item and logged as an
\* error; the program is always at a statement whose step can be taken until
\* the list is exhausted, and get_favicons returns without an exception
\* escaping.
UrlListIsolatesFailures ==
    mode = "urls" =>
        /\ pc # "crashed"
        /\ idx <= Len(urls)
        /\ Len(attempts) = idx
        /\ \A k \in 1..idx : attempts[k] = k
        /\ pc \in {"page_get", "head", "resolve", "located", "fetch_get",
                   "decode", "save", "except"}
              => url = WithHttps(urls[idx])
        /\ pc = "exit" => idx = Len(urls)
        /\ (pc = "loop" /\ exc # "none") => "error" \in ev
        /\ pc \in {"main", "loop", "page_get", "head", "resolve", "located",
                   "fetch_get", "decode", "save", "except", "exit"}
        /\ pc = "head" => ext_i < Len(Exts)

\* a first URL that fails was followed by a second one that succeeded, and
\* the function returned
UrlListWitness ==
    /\ mode = "urls" /\ pc = "exit"
    /\ urls = <<"httpbin.org", "a.com">>
    /\ attempts = <<1, 2>>
    /\ "print" \in ev

\* C2: in interwiki mode an exception raised in one entry is caught and
\* logged in that entry, every later line is still scanned, and nothing
\* escapes the handler.
InterwikiIsolatesFailures ==
    mode = "dokuwiki" =>
        /\ pc # "crashed"
        /\ (pc = "dw_line" /\ exc # "none") => "error" \in ev
        /\ pc = "exit" => idx = Len(conf)

\* C3: in interwiki mode the step that takes a valid entry whose icon file
\* exists sends no request, writes nothing and logs only the info message of
\* the skip when force is false, and goes on to locate when force is true.
ExistingIconSkipped ==
    [][(/\ pc = "dw_line" /\ mode = "dokuwiki" /\ idx < Len(conf)
        /\ InterwikiMatch(conf[idx + 1]).ok
        /\ pathjoin("/w/lib/images/interwiki",
                    InterwikiMatch(conf[idx + 1]).name \o ".png") \in files)
       => IF force
          THEN pc' = "page_get" /\ ev' = {"locate"}
          ELSE /\ pc' = "dw_line"
               /\ reqs' = <<>>
               /\ files' = files
               /\ ev' = {"skip"}]_vars

\* an entry was skipped because its icon exists
ExistingIconWitness ==
    /\ mode = "dokuwiki" /\ pc = "dw_line" /\ idx = 2
    /\ ~force
    /\ filename \in files
    /\ ev = {"skip"} /\ reqs = <<>>

\* C4: what get_favicon_url returns is empty or an absolute URL,
\* scheme://host/..., never a relative one.
ResolvedIsAbsolute ==
    (mode = "locate" /\ pc = "returned" /\ favicon_url # "") =>
        \E sch \in {"http", "https"} : StartsWith(favicon_url, sch \o "://")

\* C5: the resolution of a found reference is the reference itself when it
\* starts with 'http', scheme ':' reference when it starts with '//', and
\* scheme '://' host reference when it starts with one '/'.
ResolutionAsSpecified ==
    (mode = "locate" /\ pc = "returned" /\ found # "") =>
        /\ StartsWith(found, "http") => favicon_url = found
        /\ StartsWith(found, "//") => favicon_url = given.scheme \o ":" \o found
        /\ (StartsWith(found, "/") /\ ~StartsWith(found, "//"))
              => favicon_url = given.scheme \o "://" \o given.host \o found

\* a protocol-relative reference was resolved
ResolutionWitness ==
    /\ mode = "locate" /\ pc = "returned"
    /\ found = "//c.net/i.png"
    /\ favicon_url = "https://c.net/i.png"

\* C6: the default locations are probed only when the page gave no link
\* reference, favicon.png before favicon.ico at scheme://host/favicon.ext;
\* the first redirect or success ends the probing; a link reference means
\* no HEAD at all.
DefaultLocationsInOrder ==
    mode = "locate" =>
        LET heads == SelectSeq(reqs, IsHead)
            base  == given.scheme \o "://" \o given.host \o "/favicon."
            want  == <<base \o "png", base \o "ico">>
        IN  /\ Len(heads) <= 2
            /\ \A k \in 1..Len(heads) : heads[k][2] = want[k]
            /\ \A k \in 1..Len(reqs) : IsGet(reqs[k]) <=> k = 1
            /\ src = "link" => heads = <<>>
            /\ heads # <<>> => reqs[1][3] \in {"ok", "other"} /\ src # "link"
            /\ \A k \in 1..(Len(reqs) - 1) :
                  IsHead(reqs[k]) => reqs[k][3] = "other"
            /\ (pc \in {"resolve", "returned"} /\ src = "location")
                  => reqs[Len(reqs)][3] = "redirect"
            /\ (pc \in {"resolve", "returned"} /\ src = "final")
                  => reqs[Len(reqs)][3] = "ok" /\ found \in {"", reqs[Len(reqs)][2]}
            /\ (pc \in {"resolve", "returned"} /\ src = "none")
                  => Len(heads) = 2 /\ heads[2][3] = "other"
            /\ pc = "head" => favicon_url = ""

\* favicon.png matched and favicon.ico was never requested
DefaultLocationsWitness ==
    /\ mode = "locate" /\ pc = "returned"
    /\ src = "final"
    /\ reqs = <<<<"GET", "http://a.com/d/p", "other">>,
                <<"HEAD", "http://a.com/favicon.png", "ok">>>>
    /\ favicon_url = "http://a.com/favicon.png"

\* C7: a favicon response whose status is not 2xx raises an HTTP error
\* before any decoding, and no image is decoded and no file written.
NonOkFetchRaises ==
    (status # 0 /\ ~(200 <= status /\ status < 300)) =>
        /\ exc = "HTTPError"
        /\ ev \cap {"open", "image", "write"} = {}

\* C8: get_filename returns the host's tokens without www, com, org, net, ru
\* joined by '-', followed by '.png' when usePng is set and by the extension
\* of the favicon URL's path otherwise.
FilenameAsSpecified ==
    (mode = "filename" /\ pc = "returned") =>
        filename =
            Join(SelectSeq(given.labels,
                           LAMBDA d : d \notin {"www", "com", "org", "net", "ru"}),
                 "-")
            \o (IF png THEN ".png" ELSE given.ext)

\* a host of excluded tokens alone gives the bare extension
FilenameWitness ==
    /\ mode = "filename" /\ pc = "returned"
    /\ given.labels = <<"www", "com">>
    /\ ~png /\ given.query = "?v=1.2" /\ given.dir = "/v1.2/"
    /\ filename = ".ico"

\* C9: in URL-list mode an input without a scheme reaches the locator with
\* 'https://' in front, an input with a scheme unchanged, so the locator's
\* URL always has a scheme and a host.
LocatorUrlHasScheme ==
    (mode = "urls" /\ pc = "page_get") =>
        /\ urlparse(urls[idx]).scheme = "" => url = "https://" \o urls[idx]
        /\ urlparse(urls[idx]).scheme # "" => url = urls[idx]
        /\ urlparse(url).scheme # ""
        /\ urlparse(url).netloc # ""

\* C10 as stated: each URL of the list produces exactly one of a printed
\* URL, a fetch-and-save attempt, an error log.
ExactlyOneOutcome ==
    UrlItemDone => Cardinality(ev \cap {"print", "fetch", "error"}) = 1

\* C10 as amended: a located favicon is printed (and neither fetched nor
\* saved) when downloadFlag is false, and fetched into outputDir joined with
\* the derived filename (and not printed) when it is true; with no favicon
\* nothing is printed, fetched or written; an error is logged exactly when
\* the item raised, which includes a fetch that failed.
OutcomePerUrl ==
    UrlItemDone =>
        LET located == favicon_url # ""
        IN  /\ (located /\ ~get) =>
                /\ "print" \in ev /\ out = favicon_url
                /\ ev \cap {"fetch", "open", "image", "write", "error"} = {}
                /\ \A k \in 2..Len(reqs) : ~IsGet(reqs[k])
            /\ (located /\ get) =>
                /\ "fetch" \in ev /\ "print" \notin ev /\ out = ""
                /\ filename = pathjoin(output_dir,
                                       get_filename(url, favicon_url, png))
                /\ output_dir # ""
            /\ ~located =>
                /\ ev \cap {"print", "fetch", "open", "image", "write"} = {}
                /\ "error" \in ev
            /\ "write" \in ev => "fetch" \in ev /\ filename \in files
            /\ "error" \in ev <=> exc # "none"
            /\ Cardinality(ev \cap {"print", "fetch"}) <= 1
            /\ ev \cap {"print", "fetch", "error"} # {}

\* a fetch that failed: a fetch attempt and an error log for one URL
OutcomeWitness ==
    /\ UrlItemDone
    /\ get
    /\ {"fetch", "error"} \subseteq ev
    /\ exc = "HTTPError"

====
